---- MODULE Spec2Model ----
(***************************************************************************)
(* GORMx: the generic repository BaseRepo[T] (base_repo.go) and the        *)
(* transaction-context carrier (data.go), over an abstract relational      *)
(* store.  Strings are sequences of ASCII byte codes, as the code          *)
(* indexes them (s[i]).                                                    *)
(***************************************************************************)
EXTENDS Integers, Sequences, FiniteSets, TLC

VARIABLES
    store,   \* committed table contents: id -> row or NoRow
    frames,  \* call stack of the InTx calls in progress (innermost last)
    last,    \* the call that returned last: its arguments and results
    c2s,     \* a Camel2Snake run: input, output, output of a second pass
    upd,     \* a deleteAutoTime run: record type, updateData, applied map
    pkRun    \* a parsePrimaryKey run: record type, resolved column

vars == <<store, frames, last, c2s, upd, pkRun>>

----------------------------------------------------------------------------
(* Bounds of the model. *)

MaxLen == 3        \* longest generated identifier fed to Camel2Snake
MaxId == 2         \* primary keys are 1..MaxId
MaxDepth == 2      \* deepest nesting of InTx calls
MaxPageNo == 2     \* page numbers are 1..MaxPageNo
MaxPageSize == 2   \* page sizes are 1..MaxPageSize
MaxFields == 3     \* most fields a generated record type declares

----------------------------------------------------------------------------
(* Strings used as identifiers, map keys and column names. *)

S_id == <<105, 100>>  \* "id"
S_Id == <<73, 100>>  \* "Id"
S_ID == <<73, 68>>  \* "ID"
S_i_d == <<105, 95, 100>>  \* "i_d"
S_age == <<97, 103, 101>>  \* "age"
S_Age == <<65, 103, 101>>  \* "Age"
S_deleted == <<100, 101, 108, 101, 116, 101, 100>>  \* "deleted"
S_Deleted == <<68, 101, 108, 101, 116, 101, 100>>  \* "Deleted"
S_UserID == <<85, 115, 101, 114, 73, 68>>  \* "UserID"
S_user_id == <<117, 115, 101, 114, 95, 105, 100>>  \* "user_id"
S_user_i_d == <<117, 115, 101, 114, 95, 105, 95, 100>>  \* "user_i_d"
S_userId == <<117, 115, 101, 114, 73, 100>>  \* "userId"
S_CreatedAt == <<67, 114, 101, 97, 116, 101, 100, 65, 116>>  \* "CreatedAt"
S_createdAt == <<99, 114, 101, 97, 116, 101, 100, 65, 116>>  \* "createdAt"
S_created_at == <<99, 114, 101, 97, 116, 101, 100, 95, 97, 116>>  \* "created_at"
S_UpdatedAt == <<85, 112, 100, 97, 116, 101, 100, 65, 116>>  \* "UpdatedAt"
S_updatedAt == <<117, 112, 100, 97, 116, 101, 100, 65, 116>>  \* "updatedAt"
S_updated_at == <<117, 112, 100, 97, 116, 101, 100, 95, 97, 116>>  \* "updated_at"
S_CreateAt == <<67, 114, 101, 97, 116, 101, 65, 116>>  \* "CreateAt"
S_UpdateAt == <<85, 112, 100, 97, 116, 101, 65, 116>>  \* "UpdateAt"
S_empty == <<>>  \* ""

\* 'A', 'Z', '_' and the distance from an upper-case letter to its lower case
ChA == 65
ChZ == 90
ChUnderscore == 95
CaseGap == 32

\* The bytes identifiers are generated from: A Z a z _ 1
Alphabet == {65, 90, 97, 122, 95, 49}

IsUpper(d) == d >= ChA /\ d <= ChZ

----------------------------------------------------------------------------
(* Camel2Snake, base_repo.go:332-351. *)

ToLowerDropped(s) == s

\* strings.ToLower on an ASCII string
ToLower(s) == [i \in 1..Len(s) |-> IF IsUpper(s[i]) THEN s[i] + CaseGap ELSE s[i]]

\* a variant that opens a word only at the first letter of an upper-case run
RECURSIVE C2SLoopRuns(_, _, _, _)
C2SLoopRuns(s, i, j, data) ==
    IF i > Len(s) THEN data
    ELSE LET d == s[i]
             data1 == IF i > 1 /\ IsUpper(d) /\ j /\ ~IsUpper(s[i - 1])
                      THEN Append(data, ChUnderscore) ELSE data
             j1 == IF d # ChUnderscore THEN TRUE ELSE j
         IN  C2SLoopRuns(s, i + 1, j1, Append(data1, d))

\* the for loop: i is the 1-based index of the next byte, j the flag, data the
\* bytes appended so far
RECURSIVE C2SLoop(_, _, _, _)
C2SLoop(s, i, j, data) ==
    IF i > Len(s) THEN data
    ELSE LET d == s[i]
             data1 == IF i > 1 /\ IsUpper(d) /\ j
                      THEN Append(data, ChUnderscore) ELSE data
             j1 == IF d # ChUnderscore THEN TRUE ELSE j
         IN  C2SLoop(s, i + 1, j1, Append(data1, d))

Camel2Snake(s) == ToLower(C2SLoop(s, 1, FALSE, <<>>))

----------------------------------------------------------------------------
(* The table of record type T and the soft-delete convention.             *)

\* DataBaseSoftDelete, data.go:17-20
Normal == 1
Deleted == 2

Ids == 1..MaxId
Ages == {7, 9}

\* a stored row; NoRow stands for "no row with this primary key", Untouched for
\* "this transaction has not written the row"
Rows == [id : Ids, age : Ages, deleted : {Normal, Deleted}]
NoRow == [id |-> 0, age |-> 0, deleted |-> 0]
Untouched == [id |-> -1, age |-> 0, deleted |-> 0]

\* the column names of the table, and a row's value in a column
Columns == {S_id, S_age, S_deleted}
ColVal(row, col) ==
    CASE col = S_id -> row.id
      [] col = S_age -> row.age
      [] col = S_deleted -> row.deleted

\* context.Context, seen through ctx.Value(contextTxKey{}): the transaction it
\* carries (the index of the frame that opened it), or NoTx
NoTx == 0
\* *gorm.DB handles: the connection pool, or an open transaction (same index)
Pool == 0
\* a nil error
Nil == "nil"

StoreEmpty == [i \in Ids |-> NoRow]
NoWrites == [i \in Ids |-> Untouched]
LastNone == [op |-> "none"]
C2SIdle == [pc |-> "idle"]
UpdIdle == [pc |-> "idle"]
PkIdle == [pc |-> "idle"]

----------------------------------------------------------------------------
(* Specification SpecC2S: Camel2Snake applied to generated identifiers,     *)
(* and applied again to its own output.                                     *)

RECURSIVE SeqsUpTo(_, _)
SeqsUpTo(S, n) ==
    IF n = 0 THEN {<<>>}
    ELSE LET shorter == SeqsUpTo(S, n - 1)
         IN  shorter \cup {Append(t, x) : t \in shorter, x \in S}

Identifiers ==
    SeqsUpTo(Alphabet, MaxLen)
        \cup {S_UserID, S_ID, S_Id, S_user_id, S_userId, S_CreatedAt, S_created_at}

InitC2S ==
    /\ store = StoreEmpty
    /\ frames = <<>>
    /\ last = LastNone
    /\ upd = UpdIdle
    /\ pkRun = PkIdle
    /\ \E s \in Identifiers : c2s = [pc |-> "in", in |-> s]

Translate ==
    /\ c2s.pc = "in"
    /\ c2s' = [pc |-> "out", in |-> c2s.in, out |-> Camel2Snake(c2s.in)]
    /\ UNCHANGED <<store, frames, last, upd, pkRun>>

Retranslate ==
    /\ c2s.pc = "out"
    /\ c2s' = [pc |-> "out2", in |-> c2s.in, out |-> c2s.out,
               out2 |-> Camel2Snake(c2s.out)]
    /\ UNCHANGED <<store, frames, last, upd, pkRun>>

NextC2S == Translate \/ Retranslate

SpecC2S == InitC2S /\ [][NextC2S]_vars

----------------------------------------------------------------------------
(* Claims about Camel2Snake. *)

RECURSIVE Flatten(_)
Flatten(ss) == IF ss = <<>> THEN <<>> ELSE Head(ss) \o Flatten(Tail(ss))

LowerByte(d) == IF IsUpper(d) THEN d + CaseGap ELSE d

\* position by position: an underscore goes before s[i] exactly when s[i] is an
\* upper-case letter, i is not the first position and some earlier byte is not '_'
PerLetterSnake(s) ==
    Flatten([i \in 1..Len(s) |->
        IF i > 1 /\ IsUpper(s[i]) /\ (\E k \in 1..(i - 1) : s[k] # ChUnderscore)
        THEN <<ChUnderscore, LowerByte(s[i])>>
        ELSE <<LowerByte(s[i])>>])

\* the first positions of the upper-case runs that do not start the string
RunStarts(s) == {i \in 2..Len(s) : IsUpper(s[i]) /\ ~IsUpper(s[i - 1])}

\* C9 as amended: Camel2Snake puts one underscore before EVERY upper-case letter
\* that is not the first byte and has a non-underscore byte somewhere before it,
\* the letters inside a run of capitals included, and lower-cases the result:
\* Camel2Snake("UserID") = "user_i_d" and Camel2Snake("ID") = "i_d".
C9_UnderscorePerUpperLetter ==
    c2s.pc \in {"out", "out2"} =>
        /\ c2s.out = PerLetterSnake(c2s.in)
        /\ (c2s.in = S_UserID => c2s.out = S_user_i_d)
        /\ (c2s.in = S_ID => c2s.out = S_i_d)

C9_Witness == c2s.pc = "out" /\ c2s.in = S_UserID /\ c2s.out = S_user_i_d

\* C9 as stated: a run of consecutive upper-case letters is one word boundary, so
\* the output is the lower-cased input with exactly one underscore added per run
\* that does not start the string; "UserID" gives "user_id" and "ID" gives "id".
C9_RunIsOneBoundary ==
    c2s.pc \in {"out", "out2"} =>
        /\ Len(c2s.out) = Len(c2s.in) + Cardinality(RunStarts(c2s.in))
        /\ (c2s.in = S_UserID => c2s.out = S_user_id)
        /\ (c2s.in = S_ID => c2s.out = S_id)

\* C10: Camel2Snake(Camel2Snake(s)) = Camel2Snake(s) for every ASCII identifier,
\* and an input without upper-case letters is returned unchanged.
C10_Idempotent ==
    /\ c2s.pc = "out2" => c2s.out2 = c2s.out
    /\ (c2s.pc \in {"out", "out2"} /\ (\A i \in 1..Len(c2s.in) : ~IsUpper(c2s.in[i])))
           => c2s.out = c2s.in

C10_Witness ==
    /\ c2s.pc = "out2"
    /\ c2s.in = S_userId
    /\ c2s.out = S_user_id
    /\ c2s.out2 = S_user_id

----------------------------------------------------------------------------
(* Record types, as reflection shows them: a sequence of fields, each with *)
(* its Go name, whether it is embedded (Anonymous), the settings of its    *)
(* gorm tag, the column it maps to, and the fields of an embedded struct.  *)

Field(name, column, tag) ==
    [name |-> name, anonymous |-> FALSE, tag |-> tag, column |-> column, fields |-> <<>>]
Embedded(name, fields) ==
    [name |-> name, anonymous |-> TRUE, tag |-> {}, column |-> S_empty, fields |-> fields]

\* ModelBaseInfo, data.go:22-26
ModelBaseInfo ==
    << Field(S_CreateAt, <<99, 114, 101, 97, 116, 101, 95, 97, 116>>, {"column", "default", "NOT NULL"}),
       Field(S_UpdateAt, <<117, 112, 100, 97, 116, 101, 95, 97, 116>>, {"column", "default", "NOT NULL"}),
       Field(S_Deleted, S_deleted, {"column", "default", "NOT NULL"}) >>

\* the record type T of the repository whose table is modelled:
\*   struct { ID int64 `gorm:"primaryKey"`; Age int; ModelBaseInfo }
RepoType ==
    << Field(S_ID, S_id, {"primaryKey"}),
       Field(S_Age, S_age, {}),
       Embedded(<<77>>, ModelBaseInfo) >>

\* b.PrimaryKey of that repository, set at construction
PrimaryKey == S_id

\* strings.Contains(tag, "autoCreateTime") and its three companions
ContainsAutoCreateTime(tag) ==
    tag \cap {"autoCreateTime", "autoCreateTime:false", "autoCreateTime:milli"} # {}
ContainsAutoCreateTimeFalse(tag) == "autoCreateTime:false" \in tag
ContainsAutoUpdateTime(tag) ==
    tag \cap {"autoUpdateTime", "autoUpdateTime:false", "autoUpdateTime:milli"} # {}
ContainsAutoUpdateTimeFalse(tag) == "autoUpdateTime:false" \in tag

\* delete(m, key)
MapDelete(m, key) == [k \in DOMAIN m \ {key} |-> m[k]]

RECURSIVE recursiveDeleteAutoTime(_, _)
recursiveDeleteAutoTime(t, updateData) ==
    IF t = <<>> THEN updateData
    ELSE LET field == Head(t)
             autoCreateTime == ContainsAutoCreateTime(field.tag)
                                   /\ ~ContainsAutoCreateTimeFalse(field.tag)
             autoUpdateTime == ContainsAutoUpdateTime(field.tag)
                                   /\ ~ContainsAutoUpdateTimeFalse(field.tag)
             after == IF field.anonymous
                      THEN recursiveDeleteAutoTime(field.fields, updateData)
                      ELSE IF autoCreateTime \/ autoUpdateTime
                           THEN MapDelete(updateData, field.name)
                           ELSE updateData
         IN  recursiveDeleteAutoTime(Tail(t), after)

deleteAutoTime(T, updateData) == recursiveDeleteAutoTime(T, updateData)

----------------------------------------------------------------------------
(* The store as a connection sees it, and the statements run on it.        *)

Overlay(w, base) == [i \in Ids |-> IF w[i] = Untouched THEN base[i] ELSE w[i]]

\* what a statement on handle conn reads: the committed rows, under the rows
\* the transaction has written itself
View(conn) == IF conn = Pool THEN store ELSE Overlay(frames[conn].writes, store)

\* row i is write-locked by an open transaction other than conn
LockedByOther(conn, i) ==
    \E k \in 1..Len(frames) : k # conn /\ frames[k].writes[i] # Untouched

\* a statement on conn gives the rows D the values new[i]: at once on the pool
\* (autocommit), in the transaction's own writes otherwise
Write(conn, D, new) ==
    IF conn = Pool
    THEN /\ store' = [i \in Ids |-> IF i \in D THEN new[i] ELSE store[i]]
         /\ frames' = frames
    ELSE /\ frames' = [frames EXCEPT ![conn].writes =
                          [i \in Ids |-> IF i \in D THEN new[i] ELSE @[i]]]
         /\ store' = store

\* Where(map): a conjunction of column = value (a scalar) or column IN values
\* (a slice); a value is modelled as the set of the values it admits
UnknownColumn(c) == \E k \in DOMAIN c : k \notin Columns
Matches(row, c) == row # NoRow /\ \A k \in DOMAIN c : ColVal(row, k) \in c[k]
MatchIds(view, c) == {i \in Ids : Matches(view[i], c)}

\* Where("deleted !=?", Deleted)
NotDeletedAll(row) == TRUE
NotDeleted(row) == row.deleted # Deleted

RECURSIVE Ascending(_)
Ascending(S) ==
    IF S = {} THEN <<>>
    ELSE LET m == CHOOSE x \in S : \A y \in S : x <= y
         IN  <<m>> \o Ascending(S \ {m})
Reverse(s) == [i \in 1..Len(s) |-> s[Len(s) + 1 - i]]

\* the rows with primary keys ids, in the order of the ORDER BY clause (in
\* primary-key order without one)
Ordered(view, ids, orderBy) ==
    LET asc == [i \in 1..Cardinality(ids) |-> view[Ascending(ids)[i]]]
    IN  IF orderBy = "id desc" THEN Reverse(asc) ELSE asc

\* the context the code running now was handed: the derived context of the
\* innermost InTx body, or a context without a transaction
\* the caller makes one call at a time: no result is pending
Idle == last.op = "none"

\* the caller has looked at the result of the call that returned and goes on
Proceed ==
    /\ ~Idle
    /\ last' = LastNone
    /\ UNCHANGED <<store, frames, c2s, upd, pkRun>>

CurrentCtx == IF frames = <<>> THEN NoTx ELSE frames[Len(frames)].tx
OpenCtxs == {NoTx} \cup {frames[k].tx : k \in 1..Len(frames)}

----------------------------------------------------------------------------
(* The transaction-context carrier.                                        *)

\* base_repo.go:34-40 (and Data.DB, data.go:44-50)
withTransactionCtx(ctx) == IF ctx # NoTx THEN ctx ELSE Pool

\* b.GormDB.WithContext(ctx), the handle InTx calls Transaction on
InTxHandle(ctx) == Pool

CommitAlways(e) == TRUE

\* gorm's Transaction commits when the callback returns nil and rolls back
\* otherwise
CommitOn(e) == e = Nil

\* InTx up to the call of fn: Transaction begins a transaction when its handle
\* is the pool, and sets a savepoint in the handle's transaction otherwise;
\* the derived context carries that transaction.  base is the committed store
\* when InTx started, kept for as long as the body makes no InTx call itself.
InTxBegin(ctx) ==
    /\ Idle
    /\ Len(frames) < MaxDepth
    /\ ctx \in OpenCtxs
    /\ LET h == InTxHandle(ctx)
           k == Len(frames) + 1
           outer == [j \in 1..Len(frames) |->
                        [frames[j] EXCEPT !.nested = TRUE, !.base = NoWrites]]
       IN  frames' = Append(outer,
                [ctx |-> ctx,
                 tx |-> IF h = Pool THEN k ELSE h,
                 writes |-> NoWrites,
                 save |-> IF h = Pool THEN NoWrites ELSE frames[h].writes,
                 base |-> store,
                 nested |-> FALSE])
    /\ UNCHANGED <<store, last, c2s, upd, pkRun>>

\* fn returns e, and InTx returns what Transaction returns: e after a
\* rollback, the result of Commit (nil) otherwise
InTxReturn(e) ==
    /\ Idle
    /\ frames # <<>>
    /\ LET k == Len(frames)
           f == frames[k]
           rest == SubSeq(frames, 1, k - 1)
       IN  /\ IF f.tx = k
              THEN /\ store' = IF CommitOn(e) THEN Overlay(f.writes, store) ELSE store
                   /\ frames' = rest
              ELSE /\ store' = store
                   /\ frames' = IF CommitOn(e) THEN rest
                                ELSE [rest EXCEPT ![f.tx].writes = f.save]
           /\ last' = [op |-> "InTx", ctx |-> f.ctx, tx |-> f.tx, frame |-> k,
                       bodyErr |-> e, err |-> IF CommitOn(e) THEN Nil ELSE e,
                       base |-> f.base, before |-> store, writes |-> f.writes,
                       nested |-> f.nested]
    /\ UNCHANGED <<c2s, upd, pkRun>>

----------------------------------------------------------------------------
(* The write methods of BaseRepo[T].  A statement that needs a row locked  *)
(* by another open transaction waits for the lock and fails.               *)

\* the error of a WHERE clause c on handle conn over the rows D it touches
WhereErr(conn, c, D) ==
    IF UnknownColumn(c) THEN "ErrUnknownColumn"
    ELSE IF \E i \in D : LockedByOther(conn, i) THEN "ErrLockWait"
    ELSE Nil

\* the column default of deleted (default:1) fills a zero value
WithDefaults(m) == [m EXCEPT !.deleted = IF @ = 0 THEN Normal ELSE @]

Insert(ctx, m) ==
    /\ Idle
    /\ ctx \in OpenCtxs
    /\ LET conn == withTransactionCtx(ctx)
           e == IF LockedByOther(conn, m.id) THEN "ErrLockWait"
                ELSE IF View(conn)[m.id] # NoRow THEN "ErrDuplicateKey"
                ELSE Nil
       IN  /\ IF e = Nil
              THEN Write(conn, {m.id}, [i \in {m.id} |-> WithDefaults(m)])
              ELSE UNCHANGED <<store, frames>>
           /\ last' = [op |-> "Insert", ctx |-> ctx, conn |-> conn, err |-> e]
    /\ UNCHANGED <<c2s, upd, pkRun>>

\* CreateInBatches: chunks of batchSize, all of them or none
BatchInsert(ctx, m, batchSize) ==
    /\ Idle
    /\ ctx \in OpenCtxs
    /\ batchSize >= 1
    /\ LET conn == withTransactionCtx(ctx)
           D == {m[i].id : i \in 1..Len(m)}
           e == IF \E i \in D : LockedByOther(conn, i) THEN "ErrLockWait"
                ELSE IF \/ \E i \in D : View(conn)[i] # NoRow
                        \/ Cardinality(D) < Len(m)
                     THEN "ErrDuplicateKey"
                ELSE Nil
           new == [i \in D |-> WithDefaults(CHOOSE r \in {m[x] : x \in 1..Len(m)} : r.id = i)]
       IN  /\ IF e = Nil THEN Write(conn, D, new) ELSE UNCHANGED <<store, frames>>
           /\ last' = [op |-> "BatchInsert", ctx |-> ctx, conn |-> conn, err |-> e,
                       n |-> IF e = Nil THEN Len(m) ELSE 0]
    /\ UNCHANGED <<c2s, upd, pkRun>>

\* Where(c).Delete(&m) for a record type without a gorm soft-delete field:
\* DELETE FROM t WHERE c.  An empty c is refused (ErrMissingWhereClause).
DeleteWhere(conn, c) ==
    LET view == View(conn)
        D == IF UnknownColumn(c) THEN {} ELSE MatchIds(view, c)
    IN  [D |-> D, new |-> [i \in D |-> NoRow]]

DeleteStatement(op, ctx, conn, condition, c) ==
    LET del == DeleteWhere(conn, c)
        e == IF DOMAIN c = {} THEN "ErrMissingWhereClause" ELSE WhereErr(conn, c, del.D)
    IN  /\ IF e = Nil THEN Write(conn, del.D, del.new) ELSE UNCHANGED <<store, frames>>
        /\ last' = [op |-> op, ctx |-> ctx, conn |-> conn, err |-> e,
                    n |-> IF e = Nil THEN Cardinality(del.D) ELSE 0,
                    condition |-> condition, where |-> c, pre |-> View(conn)]

\* pks: one primary key or a slice of them, as the set of the keys
DeleteByPK(ctx, pks) ==
    /\ Idle
    /\ ctx \in OpenCtxs
    /\ LET c == [k \in {PrimaryKey} |-> pks]
       IN  DeleteStatement("DeleteByPK", ctx, withTransactionCtx(ctx), c, c)
    /\ UNCHANGED <<c2s, upd, pkRun>>

\* the map built by the range loop: when two keys of condition have the same
\* snake_case form, the pair written last stays, and Go's map iteration order
\* decides which that is
camel2SnakeForMapKey(condition) ==
    LET T == {Camel2Snake(k) : k \in DOMAIN condition}
    IN  {c \in [T -> {condition[k] : k \in DOMAIN condition}] :
            \A t \in T : \E k \in DOMAIN condition :
                Camel2Snake(k) = t /\ c[t] = condition[k]}

DeleteByMap(ctx, condition) ==
    /\ Idle
    /\ ctx \in OpenCtxs
    /\ \E c \in camel2SnakeForMapKey(condition) :
           DeleteStatement("DeleteByMap", ctx, withTransactionCtx(ctx), condition, c)
    /\ UNCHANGED <<c2s, upd, pkRun>>

\* Model(..).Where(c).Updates(set): UPDATE t SET set WHERE c, on deleted rows
\* as on others.  An empty c is refused, an empty set runs nothing.
SetColumns(row, set) ==
    [id |-> row.id,
     age |-> IF S_age \in DOMAIN set THEN set[S_age] ELSE row.age,
     deleted |-> IF S_deleted \in DOMAIN set THEN set[S_deleted] ELSE row.deleted]

UpdateStatement(op, ctx, conn, condition, c, set) ==
    LET view == View(conn)
        D == IF UnknownColumn(c) \/ DOMAIN set = {} THEN {} ELSE MatchIds(view, c)
        e == IF DOMAIN set = {} THEN Nil
             ELSE IF DOMAIN c = {} THEN "ErrMissingWhereClause"
             ELSE IF UnknownColumn(set) THEN "ErrUnknownColumn"
             ELSE WhereErr(conn, c, D)
    IN  /\ IF e = Nil
           THEN Write(conn, D, [i \in D |-> SetColumns(view[i], set)])
           ELSE UNCHANGED <<store, frames>>
        /\ last' = [op |-> op, ctx |-> ctx, conn |-> conn, err |-> e,
                    n |-> IF e = Nil THEN Cardinality(D) ELSE 0,
                    condition |-> condition, where |-> c, applied |-> set]

\* the non-zero fields of a struct value, keyed by column
NonZero(t) ==
    [k \in {col \in Columns : ColVal(t, col) # ColVal(NoRow, col)} |-> ColVal(t, k)]

\* Model(t).Updates(t): the row with t's primary key gets t's other non-zero fields
UpdateByPK(ctx, t) ==
    /\ Idle
    /\ ctx \in OpenCtxs
    /\ LET nz == NonZero(t)
           c == [k \in DOMAIN nz \cap {PrimaryKey} |-> {nz[k]}]
           set == [k \in DOMAIN nz \ {PrimaryKey} |-> nz[k]]
       IN  UpdateStatement("UpdateByPK", ctx, withTransactionCtx(ctx), c, c, set)
    /\ UNCHANGED <<c2s, upd, pkRun>>

UpdateByMapAs(op, ctx, condition, updateData) ==
    /\ Idle
    /\ ctx \in OpenCtxs
    /\ \E c \in camel2SnakeForMapKey(condition) :
           UpdateStatement(op, ctx, withTransactionCtx(ctx), condition, c,
                           deleteAutoTime(RepoType, updateData))
    /\ UNCHANGED <<c2s, upd, pkRun>>

UpdateByMap(ctx, condition, updateData) ==
    UpdateByMapAs("UpdateByMap", ctx, condition, updateData)

UpdateByPKWithMap(ctx, pk, updateData) ==
    UpdateByMapAs("UpdateByPKWithMap", ctx, [k \in {PrimaryKey} |-> {pk}], updateData)

----------------------------------------------------------------------------
(* The read methods of BaseRepo[T].                                        *)

\* Model(&m).Where("deleted !=?", Deleted).Where(condition).Find(&res)
_select(conn, condition) ==
    IF UnknownColumn(condition)
    THEN [res |-> <<>>, err |-> "ErrUnknownColumn"]
    ELSE LET view == View(conn)
             ids == {i \in MatchIds(view, condition) : NotDeleted(view[i])}
         IN  [res |-> Ordered(view, ids, ""), err |-> Nil]

selectOneFirst(found) ==
    IF found.err # Nil THEN [row |-> NoRow, err |-> found.err]
    ELSE IF Len(found.res) = 0 THEN [row |-> NoRow, err |-> Nil]
    ELSE [row |-> found.res[1], err |-> Nil]

\* selectOne after its call of _select; a nil *T is NoRow
selectOne(found) ==
    IF found.err # Nil THEN [row |-> NoRow, err |-> found.err]
    ELSE IF Len(found.res) = 0 THEN [row |-> NoRow, err |-> Nil]
    ELSE IF Len(found.res) > 1 THEN [row |-> NoRow, err |-> "ErrNotOne"]
    ELSE [row |-> found.res[1], err |-> found.err]

\* a struct condition: Where(condition) takes the non-zero fields
StructWhere(t) == LET nz == NonZero(t) IN [k \in DOMAIN nz |-> {nz[k]}]

ReadOne(op, ctx, condition, c) ==
    LET conn == withTransactionCtx(ctx)
        got == selectOne(_select(conn, c))
    IN  /\ last' = [op |-> op, ctx |-> ctx, conn |-> conn, condition |-> condition,
                    where |-> c, row |-> got.row, err |-> got.err]
        /\ UNCHANGED <<store, frames, c2s, upd, pkRun>>

ReadMany(op, ctx, condition, c) ==
    LET conn == withTransactionCtx(ctx)
        got == _select(conn, c)
    IN  /\ last' = [op |-> op, ctx |-> ctx, conn |-> conn, condition |-> condition,
                    where |-> c, res |-> got.res, err |-> got.err]
        /\ UNCHANGED <<store, frames, c2s, upd, pkRun>>

SelectOne(ctx, condition) ==
    /\ Idle
    /\ ctx \in OpenCtxs
    /\ ReadOne("SelectOne", ctx, condition, StructWhere(condition))

SelectOneByMap(ctx, condition) ==
    /\ Idle
    /\ ctx \in OpenCtxs
    /\ \E c \in camel2SnakeForMapKey(condition) : ReadOne("SelectOneByMap", ctx, condition, c)

SelectOneByPK(ctx, pk) ==
    /\ Idle
    /\ ctx \in OpenCtxs
    /\ LET condition == [k \in {PrimaryKey} |-> {pk}]
       IN  \E c \in camel2SnakeForMapKey(condition) :
               ReadOne("SelectOneByPK", ctx, condition, c)

Select(ctx, condition) ==
    /\ Idle
    /\ ctx \in OpenCtxs
    /\ ReadMany("Select", ctx, condition, StructWhere(condition))

SelectByMap(ctx, condition) ==
    /\ Idle
    /\ ctx \in OpenCtxs
    /\ \E c \in camel2SnakeForMapKey(condition) : ReadMany("SelectByMap", ctx, condition, c)

SelectAll(ctx) ==
    /\ Idle
    /\ ctx \in OpenCtxs
    /\ LET condition == [k \in {} |-> {}]
       IN  \E c \in camel2SnakeForMapKey(condition) : ReadMany("SelectAll", ctx, condition, c)

SelectByPK(ctx, pks) ==
    /\ Idle
    /\ ctx \in OpenCtxs
    /\ LET condition == [k \in {PrimaryKey} |-> pks]
       IN  \E c \in camel2SnakeForMapKey(condition) : ReadMany("SelectByPK", ctx, condition, c)

\* *PageParam; a nil pointer is NilPage
NilPage == [nil |-> TRUE, pageNo |-> 0, pageSize |-> 0, orderBy |-> ""]
PageParam(pageNo, pageSize, orderBy) ==
    [nil |-> FALSE, pageNo |-> pageNo, pageSize |-> pageSize, orderBy |-> orderBy]

Offset(s, n) == SubSeq(s, n + 1, Len(s))
Limit(s, n) == SubSeq(s, 1, IF n < Len(s) THEN n ELSE Len(s))

TotalOfCount(total, res) == total

\* if total == 0 { total = int64(len(res)) }
TotalOrLen(total, res) == IF total = 0 THEN Len(res) ELSE total

\* the count query, the bounded fetch and the total of ListPage and PageSelect,
\* on handle conn with the conditions where already in the query
PagedFind(conn, where, page) ==
    IF UnknownColumn(where)
    THEN [res |-> <<>>, total |-> 0, err |-> "ErrUnknownColumn"]
    ELSE LET view == View(conn)
             ids == {i \in MatchIds(view, where) : NotDeleted(view[i])}
             total == IF ~page.nil THEN Cardinality(ids) ELSE 0
             res == IF ~page.nil
                    THEN Limit(Offset(Ordered(view, ids, page.orderBy),
                                      (page.pageNo - 1) * page.pageSize),
                               page.pageSize)
                    ELSE Ordered(view, ids, "")
         IN  [res |-> res, total |-> TotalOrLen(total, res), err |-> Nil]

\* query: a *gorm.DB the caller built, on handle query.conn, with the
\* conditions query.where; the context argument is not used
ListPage(ctx, query, page) ==
    /\ Idle
    /\ ctx \in OpenCtxs
    /\ query.conn \in OpenCtxs
    /\ LET got == PagedFind(query.conn, query.where, page)
       IN  last' = [op |-> "ListPage", ctx |-> ctx, conn |-> query.conn,
                    where |-> query.where, page |-> page,
                    res |-> got.res, total |-> got.total, err |-> got.err]
    /\ UNCHANGED <<store, frames, c2s, upd, pkRun>>

\* query, args: the conditions, given to Where as they are
PageSelect(ctx, page, query) ==
    /\ Idle
    /\ ctx \in OpenCtxs
    /\ LET conn == withTransactionCtx(ctx)
           got == PagedFind(conn, query, page)
       IN  last' = [op |-> "PageSelect", ctx |-> ctx, conn |-> conn,
                    where |-> query, page |-> page,
                    res |-> got.res, total |-> got.total, err |-> got.err]
    /\ UNCHANGED <<store, frames, c2s, upd, pkRun>>

----------------------------------------------------------------------------
(* The arguments callers pass.                                             *)

\* records to insert: deleted left zero (the column default applies) or set
InsertRows == [id : Ids, age : Ages, deleted : {0, Deleted}]

\* struct values with zero fields, for Select, SelectOne and UpdateByPK
StructValues == [id : {0} \cup Ids, age : {0} \cup Ages, deleted : {0, Normal, Deleted}]

\* one primary key or a slice of primary keys
PkSets == SUBSET Ids

\* the values a caller compares the column behind a key with
ValuesFor(key) ==
    CASE key \in {S_id, S_ID} -> Ids
      [] key \in {S_age, S_Age} -> Ages
      [] key \in {S_deleted} -> {Normal, Deleted}

\* condition maps over the keys K, with at most n keys: each key with one
\* scalar value of its column's type
CondMapsOver(K, n) ==
    UNION {{c \in [D -> {{v} : v \in UNION {ValuesFor(k) : k \in D}}] :
               \A k \in D : c[k] \subseteq ValuesFor(k)} :
           D \in {D \in SUBSET K : Cardinality(D) <= n}}

\* "id", "ID", "age", "Age", "deleted": camelCase and snake_case spellings
CondKeys == {S_id, S_ID, S_age, S_Age, S_deleted}
CondMaps == CondMapsOver(CondKeys, 2)

\* conditions already in column terms, for Where of ListPage and PageSelect
ColumnConds == CondMapsOver(Columns, 1)

UpdateMaps == CondMapsOver({S_age, S_deleted}, 2)
UpdateData == {[k \in DOMAIN c |-> CHOOSE v \in c[k] : TRUE] : c \in UpdateMaps}

Pages ==
    {NilPage} \cup {PageParam(p, z, o) :
                       p \in 1..MaxPageNo, z \in 1..MaxPageSize, o \in {"", "id desc"}}

BodyErrors == {Nil, "ErrBody"}

----------------------------------------------------------------------------
(* Specification Spec: a call tree of InTx bodies and repository calls.    *)
(* Inside a body the writes go through the context the body was handed;    *)
(* reads use any context in scope.                                         *)

\* the one-key condition key = v
Cond1(key, v) == [k \in {key} |-> {v}]
NoCond == [k \in {} |-> {}]
\* the updateData map {key: v}
Set1(key, v) == [k \in {key} |-> v]
Struct(id, age, deleted) == [id |-> id, age |-> age, deleted |-> deleted]

TxRows == {Struct(i, 7, 0) : i \in Ids}
Batches == {<<Struct(1, 7, 0)>>, <<Struct(1, 7, 0), Struct(2, 7, 0)>>}
TxPages == {NilPage, PageParam(1, 1, "")}

Init ==
    /\ store = StoreEmpty
    /\ frames = <<>>
    /\ last = LastNone
    /\ c2s = C2SIdle
    /\ upd = UpdIdle
    /\ pkRun = PkIdle

Next ==
    \/ Proceed
    \/ InTxBegin(CurrentCtx)
    \/ \E e \in BodyErrors : InTxReturn(e)
    \/ \E m \in TxRows : Insert(CurrentCtx, m)
    \/ \E m \in Batches, batchSize \in 1..2 : BatchInsert(CurrentCtx, m, batchSize)
    \/ \E pk \in Ids : DeleteByPK(CurrentCtx, {pk})
    \/ DeleteByMap(CurrentCtx, Cond1(S_deleted, Deleted))
    \/ \E pk \in Ids : UpdateByPK(CurrentCtx, Struct(pk, 0, Deleted))
    \/ UpdateByMap(CurrentCtx, Cond1(S_Age, 7), Set1(S_deleted, Normal))
    \/ UpdateByPKWithMap(CurrentCtx, 1, Set1(S_deleted, Deleted))
    \/ \E ctx \in OpenCtxs : SelectOne(ctx, Struct(1, 0, 0))
    \/ \E ctx \in OpenCtxs : SelectOneByPK(ctx, 1)
    \/ \E ctx \in OpenCtxs : SelectOneByMap(ctx, Cond1(S_Age, 7))
    \/ \E ctx \in OpenCtxs : Select(ctx, Struct(0, 7, 0))
    \/ \E ctx \in OpenCtxs : SelectAll(ctx)
    \/ \E ctx \in OpenCtxs : SelectByPK(ctx, Ids)
    \/ \E ctx \in OpenCtxs : SelectByMap(ctx, Cond1(S_deleted, Normal))
    \/ \E ctx \in OpenCtxs, conn \in OpenCtxs :
           ListPage(ctx, [conn |-> conn, where |-> NoCond], NilPage)
    \/ \E ctx \in OpenCtxs, page \in TxPages : PageSelect(ctx, page, NoCond)

Spec == Init /\ [][Next]_vars

----------------------------------------------------------------------------
(* Specification SpecQuery: the repository used without transactions, the  *)
(* reads with every condition and page descriptor of the bounded sets.      *)

NextQuery ==
    \/ Proceed
    \/ \E m \in InsertRows : Insert(NoTx, m)
    \/ \E pks \in PkSets : DeleteByPK(NoTx, pks)
    \/ \E c \in CondMaps : DeleteByMap(NoTx, c)
    \/ \E t \in StructValues : UpdateByPK(NoTx, t)
    \/ \E c \in CondMaps, u \in UpdateData : UpdateByMap(NoTx, c, u)
    \/ \E t \in StructValues : SelectOne(NoTx, t)
    \/ \E pk \in Ids : SelectOneByPK(NoTx, pk)
    \/ \E c \in CondMaps : SelectOneByMap(NoTx, c)
    \/ \E t \in StructValues : Select(NoTx, t)
    \/ SelectAll(NoTx)
    \/ \E pks \in PkSets : SelectByPK(NoTx, pks)
    \/ \E c \in CondMaps : SelectByMap(NoTx, c)
    \/ \E c \in ColumnConds, page \in Pages :
           ListPage(NoTx, [conn |-> Pool, where |-> c], page)
    \/ \E c \in ColumnConds, page \in Pages : PageSelect(NoTx, page, c)

SpecQuery == Init /\ [][NextQuery]_vars

----------------------------------------------------------------------------
(* Specification SpecUpd: deleteAutoTime applied to updateData maps, for    *)
(* record types with auto-managed timestamp fields.                         *)

\* struct { ID; Age; CreatedAt `gorm:"autoCreateTime"`; UpdatedAt `gorm:"autoUpdateTime"` }
TypeFlat ==
    << Field(S_ID, S_id, {"primaryKey"}),
       Field(S_Age, S_age, {}),
       Field(S_CreatedAt, S_created_at, {"autoCreateTime"}),
       Field(S_UpdatedAt, S_updated_at, {"autoUpdateTime"}) >>

\* struct { ID; Times; Age } with the embedded
\* Times struct { CreatedAt `gorm:"autoCreateTime"`; UpdatedAt `gorm:"autoUpdateTime:milli"` }
TypeEmbedded ==
    << Field(S_ID, S_id, {"primaryKey"}),
       Embedded(<<84>>,
                << Field(S_CreatedAt, S_created_at, {"autoCreateTime"}),
                   Field(S_UpdatedAt, S_updated_at, {"autoUpdateTime:milli"}) >>),
       Field(S_Age, S_age, {}) >>

\* struct { CreatedAt `gorm:"autoCreateTime:false"`; UpdatedAt `gorm:"autoUpdateTime"`; Age }
TypeSwitchedOff ==
    << Field(S_CreatedAt, S_created_at, {"autoCreateTime:false"}),
       Field(S_UpdatedAt, S_updated_at, {"autoUpdateTime"}),
       Field(S_Age, S_age, {}) >>

RecordTypes == {TypeFlat, TypeEmbedded, TypeSwitchedOff, RepoType}

\* the keys a caller may spell: Go field name, camelCase, snake_case column
UpdKeys == {S_CreatedAt, S_createdAt, S_created_at,
            S_UpdatedAt, S_updatedAt, S_updated_at, S_Age, S_age}

InitUpd ==
    /\ store = StoreEmpty
    /\ frames = <<>>
    /\ last = LastNone
    /\ c2s = C2SIdle
    /\ pkRun = PkIdle
    /\ \E T \in RecordTypes, D \in SUBSET UpdKeys :
           upd = [pc |-> "call", T |-> T, updateData |-> [k \in D |-> 1]]

\* UpdateByMap up to its Updates call: the map handed to Updates
StripAutoTime ==
    /\ upd.pc = "call"
    /\ upd' = [pc |-> "done", T |-> upd.T, updateData |-> upd.updateData,
               applied |-> deleteAutoTime(upd.T, upd.updateData)]
    /\ UNCHANGED <<store, frames, last, c2s, pkRun>>

NextUpd == StripAutoTime

SpecUpd == InitUpd /\ [][NextUpd]_vars

----------------------------------------------------------------------------
(* Claims about InTx and the connection a call runs on (Spec).             *)

\* C1: InTx is atomic in the outcome of its body.  For a body made of repository
\* calls through the derived context: if the body returns an error, InTx returns
\* that error and the committed store, which is what a read outside the
\* transaction sees, is the store InTx started from; if the body returns nil,
\* InTx returns nil and the store is the starting store with all the body's
\* writes applied.
C1_InTxAtomic ==
    (last.op = "InTx" /\ ~last.nested) =>
        /\ last.bodyErr # Nil => (last.err = last.bodyErr /\ View(Pool) = last.base)
        /\ last.bodyErr = Nil =>
               (last.err = Nil /\ View(Pool) = Overlay(last.writes, last.base))

\* a body that wrote two rows returned an error, and both writes are gone
C1_Witness ==
    /\ last.op = "InTx"
    /\ ~last.nested
    /\ last.bodyErr # Nil
    /\ Cardinality({i \in Ids : last.writes[i] \in Rows}) >= 2
    /\ store = last.base

\* C2: an InTx called with a context that carries an open transaction runs its
\* body in that transaction and opens no second one: when it returns, nothing
\* has been committed by it, whatever its body returned (its writes wait for
\* the outcome of the outer body).
C2_NestedInTxJoinsOuter ==
    (last.op = "InTx" /\ last.ctx # NoTx) => store = last.before

DataOps ==
    {"Insert", "BatchInsert", "DeleteByPK", "DeleteByMap", "UpdateByPK",
     "UpdateByPKWithMap", "UpdateByMap", "SelectOne", "SelectOneByPK",
     "SelectOneByMap", "Select", "SelectAll", "SelectByPK", "SelectByMap",
     "ListPage", "PageSelect"}

\* C3: every data-access method called with a context that carries an open
\* transaction runs its statements on that transaction.
C3_RunsOnContextTx ==
    (last.op \in DataOps /\ last.ctx # NoTx) => last.conn = last.ctx

----------------------------------------------------------------------------
(* Claims about reads, deletes and pages (SpecQuery).                      *)

ReadManyOps == {"Select", "SelectAll", "SelectByPK", "SelectByMap"}
ReadOneOps == {"SelectOne", "SelectOneByPK", "SelectOneByMap"}
PageOps == {"ListPage", "PageSelect"}

\* the primary keys of the rows of view that match where and are not marked
\* Deleted
LiveMatches(view, where) ==
    {i \in Ids : /\ view[i] # NoRow
                 /\ view[i].deleted # Deleted
                 /\ \A k \in DOMAIN where : ColVal(view[i], k) \in where[k]}

\* C4: no read method returns a row whose soft-delete marker is Deleted, and the
\* total of ListPage and PageSelect counts no such row.
C4_ReadsSkipDeleted ==
    /\ last.op \in ReadManyOps \cup PageOps =>
           \A i \in 1..Len(last.res) : last.res[i].deleted # Deleted
    /\ last.op \in ReadOneOps => last.row.deleted # Deleted
    /\ (last.op \in PageOps /\ last.err = Nil) =>
           last.total = Cardinality(LiveMatches(View(last.conn), last.where))

\* a page query over a table holding a row marked Deleted and a live one
C4_Witness ==
    /\ last.op = "ListPage"
    /\ last.where = NoCond
    /\ \E i \in Ids : store[i].deleted = Deleted
    /\ Len(last.res) = 1
    /\ last.total = 1

\* C5: DeleteByPK and DeleteByMap are soft deletes: after a successful call the
\* rows that matched are still in the store, marked Deleted, and the other rows
\* are unchanged.
C5_DeleteMarksRows ==
    (last.op \in {"DeleteByPK", "DeleteByMap"} /\ last.err = Nil) =>
        \A i \in Ids :
            View(last.conn)[i] =
                IF Matches(last.pre[i], last.where)
                THEN [last.pre[i] EXCEPT !.deleted = Deleted]
                ELSE last.pre[i]

\* C6: a single-row lookup whose query the store answers returns (nil, nil) when
\* no live row matches, (the row, nil) when exactly one does, (nil, error) when
\* two or more do; a query the store refuses returns (nil, error); a row never
\* comes with an error.
C6_SelectOneCases ==
    last.op \in ReadOneOps =>
        LET view == View(last.conn)
            live == IF UnknownColumn(last.where) THEN {}
                    ELSE LiveMatches(view, last.where)
        IN  /\ ~(last.row # NoRow /\ last.err # Nil)
            /\ UnknownColumn(last.where) => (last.row = NoRow /\ last.err # Nil)
            /\ ~UnknownColumn(last.where) =>
                   /\ Cardinality(live) = 0 => (last.row = NoRow /\ last.err = Nil)
                   /\ Cardinality(live) = 1 =>
                          (last.err = Nil /\ \E i \in live : last.row = view[i])
                   /\ Cardinality(live) >= 2 => (last.row = NoRow /\ last.err # Nil)

\* two live rows match: no row, an error
C6_Witness ==
    /\ last.op = "SelectOneByMap"
    /\ ~UnknownColumn(last.where)
    /\ Cardinality(LiveMatches(store, last.where)) >= 2
    /\ last.row = NoRow
    /\ last.err # Nil

\* C8: with N live matching rows, a page {PageNo = p, PageSize = s} is the rows
\* at positions (p-1)*s+1 .. min(p*s, N) of the ordered match list with
\* total = N; a nil page descriptor is all N rows with total = N.
C8_PageIsSliceOfMatches ==
    (last.op \in PageOps /\ last.err = Nil) =>
        LET view == View(last.conn)
            live == LiveMatches(view, last.where)
            N == Cardinality(live)
            p == last.page.pageNo
            z == last.page.pageSize
            list == Ordered(view, live, last.page.orderBy)
            first == (p - 1) * z + 1
            upto == IF p * z < N THEN p * z ELSE N
        IN  /\ last.total = N
            /\ IF last.page.nil
               THEN last.res = Ordered(view, live, "")
               ELSE /\ Len(last.res) = (IF upto >= first THEN upto - first + 1 ELSE 0)
                    /\ \A i \in 1..Len(last.res) : last.res[i] = list[first + i - 1]

\* the second page of size one over two matching rows
C8_Witness ==
    /\ last.op = "PageSelect"
    /\ last.page = PageParam(2, 1, "")
    /\ Cardinality(LiveMatches(store, last.where)) = 2
    /\ last.total = 2
    /\ last.res = <<store[2]>>

----------------------------------------------------------------------------
(* Claim about the update map (SpecUpd).                                   *)

\* the fields of record type t tagged as auto-managed creation or update
\* timestamps, those of embedded structs included
RECURSIVE AutoTimeFields(_)
AutoTimeFields(t) ==
    IF t = <<>> THEN {}
    ELSE LET field == Head(t)
             here == IF field.anonymous THEN AutoTimeFields(field.fields)
                     ELSE IF \/ field.tag \cap {"autoCreateTime", "autoCreateTime:milli"} # {}
                             \/ field.tag \cap {"autoUpdateTime", "autoUpdateTime:milli"} # {}
                          THEN {field}
                          ELSE {}
         IN  here \cup AutoTimeFields(Tail(t))

\* the camelCase spelling of a Go field name: its first letter in lower case
LowerFirst(name) == [i \in 1..Len(name) |-> IF i = 1 THEN LowerByte(name[i]) ELSE name[i]]

\* the keys under which a caller may name the field
Spellings(field) == {field.name, LowerFirst(field.name), field.column}

AutoTimeKeys(t) == UNION {Spellings(field) : field \in AutoTimeFields(t)}

\* C7: the map handed to Updates has no key that names an auto-managed
\* timestamp field of T, in any of the three spellings, and has every other
\* key of updateData with its value.
C7_NoAutoTimeKeyApplied ==
    upd.pc = "done" =>
        /\ DOMAIN upd.applied \cap AutoTimeKeys(upd.T) = {}
        /\ \A k \in DOMAIN upd.updateData \ AutoTimeKeys(upd.T) :
               k \in DOMAIN upd.applied /\ upd.applied[k] = upd.updateData[k]

----------------------------------------------------------------------------
(* Primary-key resolution (parsePrimaryKey) and specification SpecPK.      *)

S_Code == <<67, 111, 100, 101>>
S_code == <<99, 111, 100, 101>>
S_Key == <<75, 101, 121>>

\* ast.IsExported(fieldStruct.Name)
IsExported(name) == name # <<>> /\ IsUpper(name[1])

\* utils.CheckTruth(tagSetting["PRIMARYKEY"], tagSetting["PRIMARY_KEY"])
CheckTruth(tag) == tag \cap {"primaryKey", "primary_key"} # {}

\* the loop of recursiveParsePrimaryKey over the fields t still to visit, hasId
\* being the flag of the level the loop runs at
RECURSIVE ParseLoop(_, _)
ParseLoop(t, hasId) ==
    IF t = <<>> THEN (IF hasId THEN S_id ELSE S_empty)
    ELSE LET fieldStruct == Head(t)
         IN  IF ~IsExported(fieldStruct.name) THEN ParseLoop(Tail(t), hasId)
             ELSE IF fieldStruct.anonymous
                  THEN LET res == ParseLoop(fieldStruct.fields, FALSE)
                       IN  IF res # S_empty THEN res ELSE ParseLoop(Tail(t), hasId)
                  ELSE IF CheckTruth(fieldStruct.tag) THEN fieldStruct.column
                       ELSE ParseLoop(Tail(t), hasId \/ fieldStruct.column = S_id)

recursiveParsePrimaryKey(t) == ParseLoop(t, FALSE)

parsePrimaryKey(T) == recursiveParsePrimaryKey(T)

\* fields a record type may declare
FieldID == Field(S_ID, S_id, {})
FieldCode == Field(S_Code, S_code, {"primaryKey"})
FieldAge == Field(S_Age, S_age, {})
FieldKey == Field(S_Key, S_id, {"column"})
FieldUnexportedId == Field(S_id, S_id, {"primaryKey"})

\* embedded structs a record type may declare: a Base, a Nested with a Times
\* inside, an unexported base
EmbeddedStructs ==
    { Embedded(<<66>>, fs) :
          fs \in { <<FieldAge>>, <<FieldID>>, <<FieldCode>>, <<FieldID, FieldCode>> } }
    \cup { Embedded(<<78>>, fs) :
          fs \in { <<Embedded(<<84>>, <<FieldID>>)>>,
                   <<FieldAge, Embedded(<<84>>, <<FieldCode>>)>> } }
    \cup { Embedded(<<98>>, <<FieldCode>>) }

DeclaredFields ==
    {FieldID, FieldCode, FieldAge, FieldKey, FieldUnexportedId} \cup EmbeddedStructs

\* struct types of at most MaxFields fields, no two with the same name
PkTypes ==
    {T \in SeqsUpTo(DeclaredFields, MaxFields) :
         \A i, j \in 1..Len(T) : i # j => T[i].name # T[j].name}

InitPK ==
    /\ store = StoreEmpty
    /\ frames = <<>>
    /\ last = LastNone
    /\ c2s = C2SIdle
    /\ upd = UpdIdle
    /\ \E T \in PkTypes : pkRun = [pc |-> "call", T |-> T]

\* NewBaseRepo: b.PrimaryKey = b.parsePrimaryKey()
ResolvePrimaryKey ==
    /\ pkRun.pc = "call"
    /\ pkRun' = [pc |-> "done", T |-> pkRun.T, key |-> parsePrimaryKey(pkRun.T)]
    /\ UNCHANGED <<store, frames, last, c2s, upd>>

NextPK == ResolvePrimaryKey

SpecPK == InitPK /\ [][NextPK]_vars

\* the exported plain fields of t, at any level of exported embedded structs
RECURSIVE ExportedFields(_)
ExportedFields(t) ==
    IF t = <<>> THEN {}
    ELSE LET f == Head(t)
             here == IF ~IsExported(f.name) THEN {}
                     ELSE IF f.anonymous THEN ExportedFields(f.fields)
                     ELSE {f}
         IN  here \cup ExportedFields(Tail(t))

TaggedFields(t) == {f \in ExportedFields(t) : CheckTruth(f.tag)}

\* C11: primary-key resolution returns the column of an explicitly tagged
\* exported field whenever one exists at any level; "id" when none exists and
\* some exported field maps to column "id"; the empty string when neither.
C11_ExplicitTagFirst ==
    pkRun.pc = "done" =>
        IF TaggedFields(pkRun.T) # {}
        THEN pkRun.key \in {f.column : f \in TaggedFields(pkRun.T)}
        ELSE IF \E f \in ExportedFields(pkRun.T) : f.column = S_id
             THEN pkRun.key = S_id
             ELSE pkRun.key = S_empty

----------------------------------------------------------------------------
(* Claim about the condition maps (SpecQuery).                             *)

ByMapOps == {"DeleteByMap", "UpdateByMap", "SelectByMap", "SelectOneByMap"}

\* row satisfies every pair of the caller's map, each key taken as the column
\* its snake_case form names
SatisfiesAllPairs(row, condition) ==
    \A k \in DOMAIN condition : ColVal(row, Camel2Snake(k)) \in condition[k]

\* C12: the filter a ...ByMap method applies is the conjunction of all the
\* pairs of the caller's map with each key in its snake_case form: it names an
\* unknown column exactly when some key's snake_case form does, and otherwise
\* admits exactly the rows that satisfy every pair, also when two keys have
\* the same snake_case form.
C12_FilterIsAllPairs ==
    last.op \in ByMapOps =>
        LET unknown == \E k \in DOMAIN last.condition : Camel2Snake(k) \notin Columns
        IN  /\ UnknownColumn(last.where) <=> unknown
            /\ ~unknown =>
                   \A row \in Rows :
                       Matches(row, last.where) <=> SatisfiesAllPairs(row, last.condition)

====
